---- MODULE Spec2Model ----
(***************************************************************************)
(* MemeGenius-AI: the meme editor (src/App.tsx) and its canvas compositor  *)
(* (src/components/MemeCanvas.tsx, and src/unnamed/part_000, the same      *)
(* component with the clip export).                                        *)
(*                                                                         *)
(* The program is a React application.  A handler does not see the state   *)
(* it has just set: it reads the props and state captured by the last      *)
(* render (its closure), and a state update is queued until the next       *)
(* render.  The model therefore keeps, beside the state itself, the values *)
(* the last render captured (seen), and a flag for a scheduled render      *)
(* (needsRender).  A discrete event (click, change, mousedown, mouseup)    *)
(* is rendered before the handler's event ends; the updates of a           *)
(* continuous event (mousemove, mouseleave) and of an asynchronous         *)
(* completion (a resolved promise, a FileReader load) are rendered by a    *)
(* scheduled task, the action Render.  A render commits every queued       *)
(* update.  Updates are applied to the state variables in the order they   *)
(* are queued, which is the order React applies them in.                   *)
(*                                                                         *)
(* A call to the key selector or to the AI service is in flight from the   *)
(* handler's await to its return; the variable stale marks the calls in    *)
(* flight that were sent before the last resetEditor (a history variable:  *)
(* the program keeps no such mark).                                        *)
(***************************************************************************)
EXTENDS Integers, Sequences, FiniteSets, TLC

VARIABLES
    view,               \* App: AppView, "GALLERY" or "EDITOR"
    currentImage,       \* App: the base image; an image is its natural size
    topText,            \* App: top caption
    bottomText,         \* App: bottom caption
    stickers,           \* App: the sticker list, back to front
    processingSticker,  \* App: TRUE while a sticker generation is in flight
    isProcessing,       \* App: TRUE while an AI edit is in flight
    isRecording,        \* App: TRUE while handleDownloadVideo awaits record()
    isAuthenticated,    \* App: a usable key was found
    isCheckingAuth,     \* App: TRUE until checkAuth has finished
    error,              \* App: the error message shown, NoError for null
    captions,           \* App: the caption suggestions
    analysisResult,     \* App: the analysis shown, NoResult for null
    checking,           \* checkAuth has not returned yet
    logins,             \* the handleLogin calls in flight
    asking,             \* request kind -> its caption / analysis calls in flight
    stale,              \* request kind -> its calls in flight sent before the last resetEditor
    selecting,          \* image -> its uploads / template loads in flight
    editing,            \* image -> the AI edits in flight that will return it
    recorders,          \* MediaRecorder -> the capture it makes
    downloads,          \* the files the browser was told to save, in order
    draggingId,         \* MemeCanvas state: the drag target, NoId when idle
    dragOffset,         \* MemeCanvas state: pointer minus sticker center
    seen,               \* the props and state captured by the last render
    needsRender,        \* a render is scheduled
    cache,              \* stickerImagesRef: sticker id -> image object
    imgs,               \* the sticker image objects: complete, onload closure
    decoded,            \* the images the browser has already decoded
    bgPending,          \* source -> closure of the drawCanvas waiting for its onload
    canvas,             \* the surface's size
    ctx,                \* the drawing state the 2D context keeps between calls
    frame               \* the draw operations of the last drawCanvas call

vars == <<view, currentImage, topText, bottomText, stickers, processingSticker,
          isProcessing, isRecording, isAuthenticated, isCheckingAuth, error,
          captions, analysisResult, checking, logins, asking, stale,
          selecting, editing, recorders, downloads,
          draggingId, dragOffset, seen, needsRender, cache, imgs,
          decoded, bgPending, canvas, ctx, frame>>

\* App state that no canvas handler and no load event sets
app == <<isAuthenticated, isCheckingAuth, error, captions, analysisResult>>

\* the calls to the key selector and to the AI service that have not returned
calls == <<checking, logins, asking>>

\* the requests, captures and saved files: what no render touches
io == <<selecting, editing, recorders, downloads>>

----------------------------------------------------------------------------
(* Bounds of the model *)

\* the longest sticker list
MaxStickers == 2
\* the handleLogin calls in flight
MaxLogins == 1
\* the values Date.now() takes are 1..MaxTime
MaxTime == 2
\* the sticker image loads in flight at once
MaxLoading == 1
\* the uploads and template loads in flight at once
MaxSelecting == 2
\* the clips being captured at once
MaxRecorders == 2
\* the words of the longest caption whose wrapping is checked
MaxWords == 3
\* the files saved and the clips being captured, together
MaxDownloads == 2
\* the milliseconds one step of the clock takes
TickMs == 1000

(* Program constants *)

MAX_WIDTH == 800
DefaultX == 150
DefaultY == 150
DefaultWidth == 100
DefaultHeight == 100
DefaultRotation == 0
\* canvas.captureStream(30)
ClipFps == 30
\* setTimeout(() => mediaRecorder.stop(), 3000)
ClipMs == 3000
\* draggingId = null
NoId == 0
\* currentImage = '' ; also an image that is not decoded yet (width 0, height 0)
\* error === null, captions === [], analysisResult === null
NoError == "null"
NoCaptions == <<>>
NoResult == "null"
\* the kinds of call to the AI service
Kinds == {"caption", "edit", "analysis", "sticker"}

\* what generateMemeCaptions and analyzeImageDeeply resolve with
Suggestions == {<<>>, <<"caption">>}
Analyses == {"analysis"}
\* how checkAuth and handleLogin end
Outcomes == {"found", "none", "throws"}

NoImage == [w |-> 0, h |-> 0]

\* The base images of the model, by natural size.
Images == {[w |-> 1600, h |-> 900]}
\* the images an AI edit returns
EditedImages == {[w |-> 400, h |-> 450]}
\* the natural sizes of the images whose surface is sized on its own
ImageWidths == {1, 400, 800, 801, 1078, 1600, 2156, 4000}
ImageHeights == {1, 450, 539, 900, 1001, 1078, 1333, 3000}
ImageSizes == {[w |-> a, h |-> b] : a \in ImageWidths, b \in ImageHeights}
\* The captions the user types: none, and "HI".
Texts == {<<>>, <<2>>}
\* The captions whose wrapping is checked, a word being the number of its
\* characters: with the caption font, 19 characters fill 95% of the width of
\* the model's surfaces.
WordLengths == {2, 9, 19}
Captions == UNION {[1..n -> WordLengths] : n \in 0..MaxWords}
\* Pointer positions in screen space.
ClientPoints == {[x |-> 100, y |-> 130], [x |-> 300, y |-> 200]}
Times == 1..MaxTime

----------------------------------------------------------------------------
(* Helpers on sequences and functions *)

Range(f) == {f[i] : i \in DOMAIN f}
Ids(list) == {list[i].id : i \in DOMAIN list}
EmptyFn == [i \in {} |-> 0]

RECURSIVE FilterSeq(_, _)
\* stickers.filter(s => s.id !== id)
FilterSeq(list, id) ==
    IF list = <<>> THEN <<>>
    ELSE IF Head(list).id = id THEN FilterSeq(Tail(list), id)
         ELSE <<Head(list)>> \o FilterSeq(Tail(list), id)

----------------------------------------------------------------------------
(* The closure of a render: what drawCanvas, defined in that render, reads *)

Closure(st) ==
    [stickers |-> st.stickers, draggingId |-> st.draggingId,
     topText |-> st.topText, bottomText |-> st.bottomText,
     imageSrc |-> st.currentImage]

\* The state as the handlers set it, before any render.
State ==
    [view |-> view, currentImage |-> currentImage, topText |-> topText,
     bottomText |-> bottomText, stickers |-> stickers,
     processingSticker |-> processingSticker,
     isProcessing |-> isProcessing, isRecording |-> isRecording,
     isAuthenticated |-> isAuthenticated, isCheckingAuth |-> isCheckingAuth,
     error |-> error, captions |-> captions, analysisResult |-> analysisResult,
     draggingId |-> draggingId, dragOffset |-> dragOffset]

\* What App renders: the spinner while isCheckingAuth, the sign-in page while
\* !isAuthenticated, else the gallery or the editor
Screen(st) ==
    IF st.isCheckingAuth THEN "SPINNER"
    ELSE IF ~st.isAuthenticated THEN "LOGIN"
    ELSE st.view

\* <MemeCanvas> is rendered when view === EDITOR && currentImage
Mounted(st) == Screen(st) = "EDITOR" /\ st.currentImage # NoImage

----------------------------------------------------------------------------
(* Load sticker images when the sticker list changes: useEffect([stickers]) *)

\* a new Image(): the least handle not in use
NewHandle(im) == CHOOSE h \in 1..(Cardinality(DOMAIN im) + 1) : h \notin DOMAIN im

RECURSIVE LoadStickers(_, _, _, _)
\* stickers.forEach: an image object is made for each id the cache lacks,
\* its onload calling the drawCanvas of this render (closure cl)
LoadStickers(list, ca, im, cl) ==
    IF list = <<>> THEN [cache |-> ca, imgs |-> im]
    ELSE LET id == Head(list).id IN
         IF id \in DOMAIN ca THEN LoadStickers(Tail(list), ca, im, cl)
         ELSE LET h == NewHandle(im) IN
              LoadStickers(Tail(list),
                  [k \in DOMAIN ca \cup {id} |-> IF k = id THEN h ELSE ca[k]],
                  [k \in DOMAIN im \cup {h} |->
                      IF k = h THEN [complete |-> FALSE, onload |-> cl] ELSE im[k]],
                  cl)

\* a cleanup that deletes nothing
CleanupCache_KeepAll(ca, list) == ca

\* Cleanup unused images: every key that is no id of the list is deleted
CleanupCache(ca, list) == [k \in DOMAIN ca \cap Ids(list) |-> ca[k]]

\* An image object out of the cache whose load has completed is garbage; one
\* whose load is in flight stays, and its onload will still fire.
Collect(im, ca) ==
    [h \in {k \in DOMAIN im : k \in Range(ca) \/ ~im[k].complete} |-> im[h]]

StickerEffect(ca, im, cl) ==
    LET loaded == LoadStickers(cl.stickers, ca, im, cl)
        kept == CleanupCache(loaded.cache, cl.stickers)
    IN  [cache |-> kept, imgs |-> Collect(loaded.imgs, kept)]

----------------------------------------------------------------------------
(* drawCanvas *)

RECURSIVE Pow2(_)
Pow2(n) == IF n = 0 THEN 1 ELSE 2 * Pow2(n - 1)

RECURSIVE PowMod(_, _)
\* 2^k modulo m
PowMod(k, m) == IF k = 0 THEN 1 % m ELSE (2 * PowMod(k - 1, m)) % m

RECURSIVE Log2(_)
\* the e with 2^e <= n < 2^(e+1)
Log2(n) == IF n < 2 THEN 0 ELSE 1 + Log2(n \div 2)

RECURSIVE ShiftFor(_, _)
\* the least j, from j on, with MAX_WIDTH * 2^j >= w
ShiftFor(w, j) == IF MAX_WIDTH * Pow2(j) >= w THEN j ELSE ShiftFor(w, j + 1)

\* const scale = Math.min(1, MAX_WIDTH / img.width), in the double arithmetic
\* of a JavaScript number.  MAX_WIDTH / 0 is Infinity, and the quotient is at
\* least 1 for every w <= MAX_WIDTH: the minimum is then exactly 1.  For
\* w > MAX_WIDTH the quotient is rounded to the nearest double of 53
\* significant bits, ties to even: q / 2^exp with 2^52 <= q <= 2^53, kept here
\* as the integer err = w * q - MAX_WIDTH * 2^exp, so that
\* scale = (MAX_WIDTH * 2^exp + err) / (w * 2^exp).
Scale(w) ==
    IF w <= MAX_WIDTH THEN [one |-> TRUE, w |-> w, exp |-> 0, err |-> 0]
    ELSE LET k == 52 + ShiftFor(w, 0)
             x == (MAX_WIDTH * PowMod(k, 2 * w)) % (2 * w)
             r == x % w
             qOdd == x \div w = 1
             down == 2 * r < w \/ (2 * r = w /\ ~qOdd)
         IN  [one |-> FALSE, w |-> w, exp |-> k, err |-> IF down THEN -r ELSE w - r]

\* a * scale as a double, then truncated as the assignment to canvas.width or
\* canvas.height truncates.  The exact product is
\* n + (rho * 2^exp + a * err) / (w * 2^exp) with n the whole part of
\* MAX_WIDTH * a / w and rho the remainder.  It rounds to a double below the
\* integer n only when rho = 0, err < 0 and the product is further below n than
\* half the distance from n to the double before it.
MulTrunc(a, sc) ==
    IF sc.one THEN a
    ELSE LET n == (MAX_WIDTH * a) \div sc.w
             rho == (MAX_WIDTH * a) % sc.w
         IN  IF rho # 0 \/ sc.err >= 0 \/ a = 0 THEN n
             ELSE LET e == Log2(n)
                      sh == IF n = Pow2(e) THEN sc.exp + e - 53 ELSE sc.exp + e - 52
                  IN  IF 2 * a * (-sc.err) <= sc.w * Pow2(sh) THEN n ELSE n - 1

\* a surface of the image's natural size, whatever its width
CanvasSize_Natural(img) == [width |-> img.w, height |-> img.h]

\* canvas.width = img.width * scale; canvas.height = img.height * scale
CanvasSize(img) ==
    LET sc == Scale(img.w)
    IN  [width |-> MulTrunc(img.w, sc), height |-> MulTrunc(img.h, sc)]

\* the surface of every image of the model, computed once
SurfaceSize == [img \in Images \cup ImageSizes \cup {NoImage} |-> CanvasSize(img)]

\* whether a * scale, as a double, is a whole number: the comparison
\* canvas.width !== img.width * scale can be false only then.  With rho = 0 the
\* exact product is n + a * err / (w * 2^exp), and it rounds to n when it is
\* no further from n than half the distance to the next double on its side.
MulExact(a, sc) ==
    IF sc.one \/ a = 0 THEN TRUE
    ELSE LET n == (MAX_WIDTH * a) \div sc.w
             rho == (MAX_WIDTH * a) % sc.w
             e == Log2(n)
         IN  IF rho # 0 THEN FALSE
             ELSE IF sc.err = 0 THEN TRUE
             ELSE IF sc.err < 0
                  THEN LET sh == IF n = Pow2(e) THEN sc.exp + e - 53 ELSE sc.exp + e - 52
                       IN  2 * a * (-sc.err) <= sc.w * Pow2(sh)
                  ELSE 2 * a * sc.err <= sc.w * Pow2(sc.exp + e - 52)

\* for every image of the model, whether img.width * scale and
\* img.height * scale are whole numbers
SurfaceWhole ==
    [img \in Images \cup ImageSizes \cup {NoImage} |->
        LET sc == Scale(img.w)
        IN  [width |-> MulExact(img.w, sc), height |-> MulExact(img.h, sc)]]

\* The drawing state of a 2D context that was just made or reset: assigning
\* canvas.width or canvas.height resets it.  font is the font size in pixels.
DefaultCtx ==
    [fillStyle |-> "black", strokeStyle |-> "black", lineWidth |-> 1,
     lineJoin |-> "miter", textAlign |-> "start", textBaseline |-> "alphabetic",
     font |-> 10]

\* A draw operation: what is drawn (kind, id), where (x, y, w, h, rotation),
\* the line of a caption, and the drawing state the operation depends on.
\* A caption's x and y are in twentieths of a pixel, every other length is in
\* pixels.
Op(kind, id, x, y) ==
    [kind |-> kind, id |-> id, x |-> x, y |-> y, w |-> 0, h |-> 0,
     rotation |-> 0, line |-> <<>>, style |-> DefaultCtx]

\* ctx.drawImage(img, 0, 0, canvas.width, canvas.height)
DrawBackground(cv) ==
    [Op("background", NoId, 0, 0) EXCEPT !.w = cv.width, !.h = cv.height]

\* ctx.drawImage(sImg, -width / 2, -height / 2, width, height) after
\* translate(x, y) and rotate(rotation): centred on (x, y), turned by rotation
DrawSticker(s) ==
    [Op("sticker", s.id, s.x, s.y) EXCEPT
        !.w = s.width, !.h = s.height, !.rotation = s.rotation]

\* strokeRect(-width / 2, -height / 2, width, height) in the same translated
\* and rotated space, with strokeStyle and lineWidth set and the line join
\* the context has at that time
DrawOutline(s, c) ==
    [Op("outline", s.id, s.x, s.y) EXCEPT
        !.w = s.width, !.h = s.height, !.rotation = s.rotation,
        !.style = [DefaultCtx EXCEPT !.strokeStyle = "#a855f7", !.lineWidth = 2,
                                     !.lineJoin = c.lineJoin]]

RECURSIVE DrawStickers_NoLookup(_, _, _, _, _)
\* a sticker loop that draws every sticker of the closure's list, whether or
\* not the cache holds a complete image for it
DrawStickers_NoLookup(list, ca, im, dId, c) ==
    IF list = <<>> THEN <<>>
    ELSE LET s == Head(list)
         IN  <<DrawSticker(s)>>
             \o (IF dId = s.id THEN <<DrawOutline(s, c)>> ELSE <<>>)
             \o DrawStickers_NoLookup(Tail(list), ca, im, dId, c)

RECURSIVE DrawStickers(_, _, _, _, _)
\* stickers.forEach: a sticker is drawn when its cached image is complete,
\* and outlined when it is the drag target of the closure; ctx.save() and
\* ctx.restore() leave the context c as it was
DrawStickers(list, ca, im, dId, c) ==
    IF list = <<>> THEN <<>>
    ELSE LET s == Head(list)
             drawn == s.id \in DOMAIN ca /\ im[ca[s.id]].complete
         IN  (IF drawn
              THEN <<DrawSticker(s)>>
                   \o (IF dId = s.id THEN <<DrawOutline(s, c)>> ELSE <<>>)
              ELSE <<>>)
             \o DrawStickers(Tail(list), ca, im, dId, c)

\* const fontSize = Math.floor(canvas.width * 0.1)
FontSize(cv) == cv.width \div 10

\* Configure Text Styles
TextStyle(c, cv) ==
    [c EXCEPT !.fillStyle = "white", !.strokeStyle = "black",
              !.lineWidth = FontSize(cv) \div 8, !.textAlign = "center",
              !.font = FontSize(cv), !.lineJoin = "round"]

\* A caption is the sequence of its words, text.split(' '), and a word is the
\* number of its characters.  A line is a sequence of words, each followed by
\* a space as the code builds it: line + words[n] + ' '.
RECURSIVE Chars(_)
Chars(line) == IF line = <<>> THEN 0 ELSE Head(line) + 1 + Chars(Tail(line))

\* the advance of one character in the caption font of the given size: half
\* the font size, for every character and for the space
Advance(fontSize) == fontSize \div 2

\* ctx.measureText(line).width for a font of the given size; the spaces at
\* the end of a string count in its width
MeasureText(line, fontSize) == Chars(line) * Advance(fontSize)

\* testWidth > maxWidth, with maxWidth = canvas.width * 0.95
TooWide(line, cv) == 20 * MeasureText(line, FontSize(cv)) > 19 * cv.width

RECURSIVE Wrap(_, _, _, _, _)
\* the loop over the words, from word n on: line is the line being filled,
\* lines the lines pushed so far
Wrap(words, n, line, lines, cv) ==
    IF n > Len(words) THEN Append(lines, line)
    ELSE LET testLine == Append(line, words[n])
         IN  IF TooWide(testLine, cv) /\ n > 1
             THEN Wrap(words, n + 1, <<words[n]>>, Append(lines, line), cv)
             ELSE Wrap(words, n + 1, testLine, lines, cv)

\* const lineHeight = fontSize * 1.2, in twentieths of a pixel
LineHeight(cv) == 24 * FontSize(cv)

\* the y of line i of n lines (i from 0), in twentieths of a pixel:
\* canvas.height * 0.05 and down for the top caption; for the bottom caption
\* currentY = canvas.height * 0.95 - (n - 1) * lineHeight and down
LineY_FromAnchor(kind, i, n, cv) ==
    (IF kind = "topText" THEN cv.height ELSE 19 * cv.height) + i * LineHeight(cv)

LineY(kind, i, n, cv) ==
    IF kind = "topText" THEN cv.height + i * LineHeight(cv)
    ELSE (19 * cv.height - (n - 1) * LineHeight(cv)) + i * LineHeight(cv)

\* lines.forEach: each line is stroked and filled at x = canvas.width / 2,
\* with the context c as drawText has set it
DrawLines(kind, lines, cv, c) ==
    [ops |-> [i \in 1..Len(lines) |->
                [Op(kind, NoId, 10 * cv.width, LineY(kind, i - 1, Len(lines), cv))
                 EXCEPT !.line = lines[i], !.style = c]],
     ctx |-> c]

\* a drawText that sets the text baseline for the bottom caption only
DrawText_TopKeepsBaseline(kind, text, cv, c) ==
    IF text = <<>> THEN [ops |-> <<>>, ctx |-> c]
    ELSE DrawLines(kind, Wrap(text, 1, <<>>, <<>>, cv), cv,
                   IF kind = "topText" THEN c
                   ELSE [c EXCEPT !.textBaseline = "bottom"])

\* drawText(text, y, baseline): nothing for an empty caption; else the
\* baseline is set, the words are wrapped and the lines are drawn.  The result
\* is the operations and the context as the call leaves it.
DrawText(kind, text, cv, c) ==
    IF text = <<>> THEN [ops |-> <<>>, ctx |-> c]
    ELSE DrawLines(kind, Wrap(text, 1, <<>>, <<>>, cv), cv,
                   [c EXCEPT !.textBaseline =
                        IF kind = "topText" THEN "top" ELSE "bottom"])

\* the operations ops, then those of the drawText call whose result is next
After(ops, next) == [ops |-> ops \o next.ops, ctx |-> next.ctx]

\* drawText(bottomText, ...) after drawText(topText, ...), whose result is top
DrawBottom(top, text, cv) ==
    After(top.ops, DrawText("bottomText", text, cv, top.ctx))

\* Configure Text Styles, then Draw Top/Bottom Text
DrawCaptions(cl, cv, c) ==
    DrawBottom(DrawText("topText", cl.topText, cv, TextStyle(c, cv)),
               cl.bottomText, cv)

\* The surface after the size test of drawCanvas, from the surface
\* sf = [canvas, ctx] the call finds: size is the truncated products and whole
\* tells whether they are whole numbers.  The size is assigned, and the
\* context reset, unless both products are whole numbers equal to the size
\* the canvas has; then the canvas is only cleared.
Resize(size, whole, sf) ==
    [canvas |-> size,
     ctx |-> IF whole.width /\ whole.height /\ sf.canvas = size
             THEN sf.ctx ELSE DefaultCtx]

\* const img = new Image(); img.src = imageSrc: the image drawCanvas draws,
\* of width and height 0 while the source is not decoded
Background(cl, dec) == IF cl.imageSrc \in dec THEN cl.imageSrc ELSE NoImage

\* if (!img.complete) img.onload = drawCanvas: the closures waiting for a
\* source, after the drawCanvas of closure cl
Waiting(cl, dec, pend) ==
    IF cl.imageSrc \in dec THEN pend
    ELSE [src \in DOMAIN pend \cup {cl.imageSrc} |->
            IF src = cl.imageSrc THEN cl ELSE pend[src]]

\* a drawCanvas that draws the captions before the stickers
Layers_TextFirst(cv, sticks, caps, pend) ==
    [canvas |-> cv, ctx |-> caps.ctx, bgPending |-> pend,
     frame |-> <<DrawBackground(cv)>> \o caps.ops \o sticks]

\* the result of a drawCanvas call: the background, then the stickers, then
\* the captions
Layers(cv, sticks, caps, pend) ==
    [canvas |-> cv, ctx |-> caps.ctx, bgPending |-> pend,
     frame |-> <<DrawBackground(cv)>> \o sticks \o caps.ops]

\* drawCanvas on the surface s0 the size test leaves
Paint(cl, ca, im, s0, pend) ==
    Layers(s0.canvas,
           DrawStickers(cl.stickers, ca, im, cl.draggingId, s0.ctx),
           DrawCaptions(cl, s0.canvas, s0.ctx),
           pend)

\* drawCanvas of the render with closure cl, run now on the surface sf.  The
\* background is a new Image() of the closure's imageSrc: complete at once when
\* the browser has decoded that source before, else of width and height 0 with
\* onload = drawCanvas.  The Image objects waiting for one source get their
\* load events together, in the order they were made, and each drawCanvas
\* clears the surface: pend keeps, for each source, the closure of the last
\* drawCanvas that waits for it.
DrawCanvas(cl, ca, im, dec, pend, sf) ==
    Paint(cl, ca, im,
          Resize(SurfaceSize[Background(cl, dec)],
                 SurfaceWhole[Background(cl, dec)], sf),
          Waiting(cl, dec, pend))

----------------------------------------------------------------------------
(* A render of the application: commit, then the effects of MemeCanvas *)

NoClosure ==
    [stickers |-> <<>>, draggingId |-> NoId, topText |-> <<>>, bottomText |-> <<>>,
     imageSrc |-> NoImage]
NoCanvas == [width |-> 0, height |-> 0]
\* a <canvas> element as it is made: 300 by 150, its context in the default state
NewSurface == [canvas |-> [width |-> 300, height |-> 150], ctx |-> DefaultCtx]
ZeroOffset == [x |-> 0, y |-> 0]

\* the redraw effect, after the sticker image effect has left eff
Redraw(st, eff, dr) ==
    [state |-> st, cache |-> eff.cache, imgs |-> eff.imgs,
     bgPending |-> dr.bgPending, canvas |-> dr.canvas, ctx |-> dr.ctx,
     frame |-> dr.frame]

\* the effects of MemeCanvas after the render of state st: eff is what the
\* sticker image effect leaves, pend and sf what the redraw effect finds
Effects(st, eff, pend, sf) ==
    Redraw(st, eff,
           DrawCanvas(Closure(st), eff.cache, eff.imgs, decoded, pend, sf))

\* The render of state st.  MemeCanvas keeps its state, its cache and its
\* canvas while it stays mounted; it is made anew when it is mounted, and its
\* pending onload handlers find canvasRef.current null once it is unmounted.
\* Its effects run in the order they are declared: the sticker image effect,
\* then the redraw effect.
Commit(st) ==
    IF ~Mounted(st)
    THEN [state |-> [st EXCEPT !.draggingId = NoId, !.dragOffset = ZeroOffset],
          cache |-> EmptyFn, imgs |-> EmptyFn, bgPending |-> EmptyFn,
          canvas |-> NoCanvas, ctx |-> DefaultCtx, frame |-> <<>>]
    ELSE IF Mounted(seen)
         THEN Effects(st, StickerEffect(cache, imgs, Closure(st)), bgPending,
                      [canvas |-> canvas, ctx |-> ctx])
         ELSE Effects([st EXCEPT !.draggingId = NoId, !.dragOffset = ZeroOffset],
                      StickerEffect(EmptyFn, EmptyFn,
                          Closure([st EXCEPT !.draggingId = NoId])),
                      EmptyFn, NewSurface)

SetState(st) ==
    /\ view' = st.view
    /\ currentImage' = st.currentImage
    /\ topText' = st.topText
    /\ bottomText' = st.bottomText
    /\ stickers' = st.stickers
    /\ processingSticker' = st.processingSticker
    /\ isProcessing' = st.isProcessing
    /\ isRecording' = st.isRecording
    /\ isAuthenticated' = st.isAuthenticated
    /\ isCheckingAuth' = st.isCheckingAuth
    /\ error' = st.error
    /\ captions' = st.captions
    /\ analysisResult' = st.analysisResult
    /\ draggingId' = st.draggingId
    /\ dragOffset' = st.dragOffset

\* The handler's updates are queued and a render is scheduled.
Defer(st) ==
    /\ SetState(st)
    /\ needsRender' = TRUE
    /\ UNCHANGED <<seen, cache, imgs, decoded, bgPending, canvas, ctx, frame>>

\* The handler's updates are rendered before its event ends.
Flush(st) ==
    \E c \in {Commit(st)} :
        /\ SetState(c.state)
        /\ seen' = c.state
        /\ needsRender' = FALSE
        /\ cache' = c.cache
        /\ imgs' = c.imgs
        /\ bgPending' = c.bgPending
        /\ canvas' = c.canvas
        /\ ctx' = c.ctx
        /\ frame' = c.frame
        /\ UNCHANGED decoded

----------------------------------------------------------------------------
(* Initial state: App's useState defaults at the first render, checkAuth   *)
(* started by the mount effect                                             *)

\* useState(...) of App and of MemeCanvas
Defaults ==
    [view |-> "GALLERY", currentImage |-> NoImage, topText |-> <<>>,
     bottomText |-> <<>>, stickers |-> <<>>, processingSticker |-> FALSE,
     isProcessing |-> FALSE, isRecording |-> FALSE,
     isAuthenticated |-> FALSE, isCheckingAuth |-> TRUE,
     error |-> NoError, captions |-> NoCaptions, analysisResult |-> NoResult,
     draggingId |-> NoId, dragOffset |-> ZeroOffset]

\* no caption, analysis, edit or sticker call in flight
NoCalls == [k \in Kinds |-> 0]

\* App is mounted with state st and no canvas; chk: checkAuth has not returned
MountedApp(st, chk) ==
    /\ view = st.view
    /\ currentImage = st.currentImage
    /\ topText = st.topText
    /\ bottomText = st.bottomText
    /\ stickers = st.stickers
    /\ processingSticker = st.processingSticker
    /\ isProcessing = st.isProcessing
    /\ isRecording = st.isRecording
    /\ isAuthenticated = st.isAuthenticated
    /\ isCheckingAuth = st.isCheckingAuth
    /\ error = st.error
    /\ captions = st.captions
    /\ analysisResult = st.analysisResult
    /\ checking = chk
    /\ logins = 0
    /\ asking = [k \in {"caption", "analysis"} |-> 0]
    /\ stale = NoCalls
    /\ selecting = [img \in Images |-> 0]
    /\ editing = [img \in EditedImages |-> 0]
    /\ recorders = EmptyFn
    /\ downloads = <<>>
    /\ draggingId = st.draggingId
    /\ dragOffset = st.dragOffset
    /\ seen = st
    /\ needsRender = FALSE
    /\ cache = EmptyFn
    /\ imgs = EmptyFn
    /\ decoded = {}
    /\ bgPending = EmptyFn
    /\ canvas = NoCanvas
    /\ ctx = DefaultCtx
    /\ frame = <<>>

Init == MountedApp(Defaults, TRUE)

\* the gallery as it is first shown, once the key check has found a key
InitGallery ==
    MountedApp([Defaults EXCEPT !.isAuthenticated = TRUE, !.isCheckingAuth = FALSE],
               FALSE)

----------------------------------------------------------------------------
(* App: choosing the base image *)

RECURSIVE SumOver(_, _)
SumOver(f, S) ==
    IF S = {} THEN 0
    ELSE LET a == CHOOSE a \in S : TRUE IN f[a] + SumOver(f, S \ {a})
InFlight(sel) == SumOver(sel, DOMAIN sel)

\* Gallery: a click on a template, or a file chosen; the load is started
ChooseImage(img) ==
    /\ Screen(seen) = "GALLERY"
    /\ InFlight(selecting) < MaxSelecting
    /\ selecting' = [selecting EXCEPT ![img] = @ + 1]
    /\ UNCHANGED <<app, calls, stale, view, currentImage, topText, bottomText, stickers,
                   processingSticker, isProcessing, isRecording, editing,
                   recorders, downloads, draggingId, dragOffset, seen, needsRender,
                   cache, imgs, decoded, bgPending, canvas, ctx, frame>>

\* resetEditor(): the captions, the suggestions, the analysis, the stickers
\* and the error are cleared
resetEditor(st) ==
    [st EXCEPT !.topText = <<>>, !.bottomText = <<>>, !.captions = NoCaptions,
               !.analysisResult = NoResult, !.stickers = <<>>, !.error = NoError]

\* the calls to the AI service in flight, by kind; a button is disabled while
\* isProcessing, or processingSticker, so that a kind has one call at most
Sent ==
    [k \in Kinds |->
        CASE k = "edit" -> InFlight(editing)
          [] k = "sticker" -> IF processingSticker THEN 1 ELSE 0
          [] OTHER -> asking[k]]

\* reader.onload / the await of toBase64 returns:
\* setCurrentImage, setView(EDITOR), resetEditor()
SelectDone(img) ==
    /\ selecting[img] > 0
    /\ selecting' = [selecting EXCEPT ![img] = @ - 1]
    /\ stale' = Sent
    /\ UNCHANGED <<editing, recorders, downloads, calls>>
    /\ Defer(resetEditor([State EXCEPT !.currentImage = img, !.view = "EDITOR"]))

\* toBase64 rejects: the catch sets the error message only
SelectFailed(img) ==
    /\ selecting[img] > 0
    /\ selecting' = [selecting EXCEPT ![img] = @ - 1]
    /\ UNCHANGED <<editing, recorders, downloads, calls, stale>>
    /\ Defer([State EXCEPT !.error = "template"])

\* the navigation bar: setView(GALLERY)
GoGallery ==
    /\ Screen(seen) = "EDITOR"
    /\ Flush([State EXCEPT !.view = "GALLERY"])
    /\ UNCHANGED <<io, calls, stale>>

SetTopText(t) ==
    /\ Screen(seen) = "EDITOR"
    /\ t # seen.topText
    /\ Flush([State EXCEPT !.topText = t])
    /\ UNCHANGED <<io, calls, stale>>

SetBottomText(t) ==
    /\ Screen(seen) = "EDITOR"
    /\ t # seen.bottomText
    /\ Flush([State EXCEPT !.bottomText = t])
    /\ UNCHANGED <<io, calls, stale>>

----------------------------------------------------------------------------
(* App: stickers *)

\* The sticker images that are loading, and those the next render will start
\* to load.
LoadsInFlight ==
    Cardinality({h \in DOMAIN imgs : ~imgs[h].complete})
    + Cardinality(Ids(stickers) \ DOMAIN cache)

\* a new sticker put at the origin of the surface
NewSticker_AtOrigin(t) ==
    [id |-> t, x |-> 0, y |-> 0, width |-> DefaultWidth,
     height |-> DefaultHeight, rotation |-> DefaultRotation]

\* the sticker handleGenerateSticker makes; t is Date.now()
NewSticker(t) ==
    [id |-> t, x |-> DefaultX, y |-> DefaultY, width |-> DefaultWidth,
     height |-> DefaultHeight, rotation |-> DefaultRotation]

\* a click on a detected object: setProcessingSticker(objectName),
\* setError(null).  The buttons are those of the objects an analysis has
\* detected; which objects it detected is not modelled, and the click is
\* taken in every editor.
GenerateStickerStart ==
    /\ Screen(seen) = "EDITOR"
    /\ ~seen.processingSticker
    /\ Flush([State EXCEPT !.processingSticker = TRUE, !.error = NoError])
    /\ UNCHANGED <<io, calls, stale>>

\* generateSticker resolves: setStickers(prev => [...prev, newSticker]),
\* then setProcessingSticker(null).  Date.now() is the wall clock: nothing
\* orders the values of two calls.
GenerateStickerDone(t) ==
    /\ processingSticker
    /\ Len(stickers) < MaxStickers
    /\ LoadsInFlight < MaxLoading
    /\ Defer([State EXCEPT !.stickers = Append(@, NewSticker(t)),
                           !.processingSticker = FALSE])
    /\ stale' = [stale EXCEPT !["sticker"] = 0]
    /\ UNCHANGED <<io, calls>>

\* generateSticker rejects: the catch sets the error message, the finally
\* clears processingSticker
GenerateStickerFailed ==
    /\ processingSticker
    /\ Defer([State EXCEPT !.processingSticker = FALSE, !.error = "sticker"])
    /\ stale' = [stale EXCEPT !["sticker"] = 0]
    /\ UNCHANGED <<io, calls>>

\* setStickers(prev => prev.filter(s => s.id !== id))
RemoveSticker(id) ==
    /\ Screen(seen) = "EDITOR"
    /\ id \in Ids(seen.stickers)
    /\ Flush([State EXCEPT !.stickers = FilterSeq(@, id)])
    /\ UNCHANGED <<io, calls, stale>>

\* Clear All Stickers: setStickers([])
ClearAllStickers ==
    /\ Screen(seen) = "EDITOR"
    /\ seen.stickers # <<>>
    /\ Flush([State EXCEPT !.stickers = <<>>])
    /\ UNCHANGED <<io, calls, stale>>

----------------------------------------------------------------------------
(* App: the AI edit of the base image *)

\* handleAIEdit, up to its await: setIsProcessing(true), setError(null); the request for the
\* edit of the current image is sent, and img is the image it will return
AIEditStart(img) ==
    /\ Screen(seen) = "EDITOR"
    /\ ~seen.isProcessing
    /\ seen.currentImage # NoImage
    /\ editing' = [editing EXCEPT ![img] = @ + 1]
    /\ Flush([State EXCEPT !.isProcessing = TRUE, !.error = NoError])
    /\ UNCHANGED <<selecting, recorders, downloads, calls, stale>>

\* editImageWithAI resolves: setCurrentImage(newImageBase64), and the finally
\* clears isProcessing
AIEditDone(img) ==
    /\ editing[img] > 0
    /\ editing' = [editing EXCEPT ![img] = @ - 1]
    /\ Defer([State EXCEPT !.currentImage = img, !.isProcessing = FALSE])
    /\ stale' = [stale EXCEPT !["edit"] = 0]
    /\ UNCHANGED <<selecting, recorders, downloads, calls>>

\* editImageWithAI rejects: the catch sets the error message, the finally
\* clears isProcessing
AIEditFailed(img) ==
    /\ editing[img] > 0
    /\ editing' = [editing EXCEPT ![img] = @ - 1]
    /\ Defer([State EXCEPT !.isProcessing = FALSE, !.error = "edit"])
    /\ stale' = [stale EXCEPT !["edit"] = 0]
    /\ UNCHANGED <<selecting, recorders, downloads, calls>>

----------------------------------------------------------------------------
(* App: caption suggestions and image analysis *)

\* handleMagicCaption, up to its await: if (!currentImage) return;
\* setIsProcessing(true), setError(null), and the request is sent
CaptionStart ==
    /\ Screen(seen) = "EDITOR"
    /\ ~seen.isProcessing
    /\ seen.currentImage # NoImage
    /\ asking' = [asking EXCEPT !["caption"] = @ + 1]
    /\ Flush([State EXCEPT !.isProcessing = TRUE, !.error = NoError])
    /\ UNCHANGED <<io, checking, logins, stale>>

\* generateMemeCaptions resolves: setCaptions(generated), and the finally
\* clears isProcessing
CaptionDone(list) ==
    /\ asking["caption"] > 0
    /\ asking' = [asking EXCEPT !["caption"] = @ - 1]
    /\ stale' = [stale EXCEPT !["caption"] = 0]
    /\ Defer([State EXCEPT !.captions = list, !.isProcessing = FALSE])
    /\ UNCHANGED <<io, checking, logins>>

\* generateMemeCaptions rejects: the catch sets the error message, the
\* finally clears isProcessing
CaptionFailed ==
    /\ asking["caption"] > 0
    /\ asking' = [asking EXCEPT !["caption"] = @ - 1]
    /\ stale' = [stale EXCEPT !["caption"] = 0]
    /\ Defer([State EXCEPT !.error = "captions", !.isProcessing = FALSE])
    /\ UNCHANGED <<io, checking, logins>>

\* handleAnalyze, up to its await
AnalyzeStart ==
    /\ Screen(seen) = "EDITOR"
    /\ ~seen.isProcessing
    /\ seen.currentImage # NoImage
    /\ asking' = [asking EXCEPT !["analysis"] = @ + 1]
    /\ Flush([State EXCEPT !.isProcessing = TRUE, !.error = NoError])
    /\ UNCHANGED <<io, checking, logins, stale>>

\* analyzeImageDeeply resolves: setAnalysisResult(result), and the finally
\* clears isProcessing
AnalyzeDone(result) ==
    /\ asking["analysis"] > 0
    /\ asking' = [asking EXCEPT !["analysis"] = @ - 1]
    /\ stale' = [stale EXCEPT !["analysis"] = 0]
    /\ Defer([State EXCEPT !.analysisResult = result, !.isProcessing = FALSE])
    /\ UNCHANGED <<io, checking, logins>>

\* an analysis whose failure sets the error message and leaves isProcessing
AnalyzeFailed_NoFinally ==
    /\ asking["analysis"] > 0
    /\ asking' = [asking EXCEPT !["analysis"] = @ - 1]
    /\ stale' = [stale EXCEPT !["analysis"] = 0]
    /\ Defer([State EXCEPT !.error = "analyze"])
    /\ UNCHANGED <<io, checking, logins>>

\* analyzeImageDeeply rejects: the catch sets the error message, the finally
\* clears isProcessing
AnalyzeFailed ==
    /\ asking["analysis"] > 0
    /\ asking' = [asking EXCEPT !["analysis"] = @ - 1]
    /\ stale' = [stale EXCEPT !["analysis"] = 0]
    /\ Defer([State EXCEPT !.error = "analyze", !.isProcessing = FALSE])
    /\ UNCHANGED <<io, checking, logins>>

----------------------------------------------------------------------------
(* App: the key check and the sign-in *)

\* a checkAuth with no finally: when the key selector rejects, isCheckingAuth
\* stays true
CheckAuthDone_NoFinally(outcome) ==
    /\ checking
    /\ checking' = FALSE
    /\ Defer([State EXCEPT !.isAuthenticated = IF outcome = "found" THEN TRUE ELSE @,
                           !.isCheckingAuth = IF outcome = "throws" THEN @ ELSE FALSE])
    /\ UNCHANGED <<io, logins, asking, stale>>

\* checkAuth returns.  found: a key is selected in AI Studio, or API_KEY is
\* set, and setIsAuthenticated(true); none: neither; throws: the key selector
\* rejects, and the catch logs.  The finally sets isCheckingAuth false.
CheckAuthDone(outcome) ==
    /\ checking
    /\ checking' = FALSE
    /\ Defer([State EXCEPT !.isAuthenticated = IF outcome = "found" THEN TRUE ELSE @,
                           !.isCheckingAuth = FALSE])
    /\ UNCHANGED <<io, logins, asking, stale>>

\* a click on Sign in with AI Studio present: openSelectKey() is awaited.
\* Without AI Studio the handler alerts and sets nothing.
LoginStart ==
    /\ Screen(seen) = "LOGIN"
    /\ logins < MaxLogins
    /\ logins' = logins + 1
    /\ UNCHANGED <<app, checking, asking, stale, view, currentImage, topText,
                   bottomText, stickers, processingSticker, isProcessing,
                   isRecording, io, draggingId, dragOffset, seen, needsRender,
                   cache, imgs, decoded, bgPending, canvas, ctx, frame>>

\* handleLogin after its awaits.  found: hasSelectedApiKey() is true, and
\* setIsAuthenticated(true); none: it is false, and nothing is set; throws:
\* the catch sets the error message.
LoginDone(outcome) ==
    /\ logins > 0
    /\ logins' = logins - 1
    /\ IF outcome = "none"
       THEN UNCHANGED <<app, view, currentImage, topText, bottomText, stickers,
                        processingSticker, isProcessing, isRecording,
                        draggingId, dragOffset, seen, needsRender,
                        cache, imgs, decoded, bgPending, canvas, ctx, frame>>
       ELSE Defer([State EXCEPT
                !.isAuthenticated = IF outcome = "found" THEN TRUE ELSE @,
                !.error = IF outcome = "throws" THEN "login" ELSE @])
    /\ UNCHANGED <<io, checking, asking, stale>>

----------------------------------------------------------------------------
(* Export: the still image and the clip *)

\* a file handed to the browser to save: its kind, and the size of the
\* surface it was taken from
File(kind, cv) == [kind |-> kind, width |-> cv.width, height |-> cv.height]

\* download(): if (!canvas) return; else the surface is saved as a PNG,
\* whatever its size
download ==
    IF ~Mounted(seen) THEN downloads
    ELSE Append(downloads, File("png", canvas))

\* a new MediaRecorder: the least handle not in use
NewRecorder(rec) == CHOOSE r \in 1..(Cardinality(DOMAIN rec) + 1) : r \notin DOMAIN rec

\* record(): if (!canvas) return; else a stream of the surface is captured at
\* 30 frames per second, the recorder is started and its stop is set for
\* 3000 ms later
record ==
    IF ~Mounted(seen) THEN recorders
    ELSE LET r == NewRecorder(recorders)
         IN  [k \in DOMAIN recorders \cup {r} |->
                IF k = r THEN [fps |-> ClipFps, width |-> canvas.width,
                               height |-> canvas.height, elapsed |-> 0]
                ELSE recorders[k]]

\* a click on Download Image: canvasRef.current?.download()
DownloadImage ==
    /\ Screen(seen) = "EDITOR"
    /\ Len(downloads) + Cardinality(DOMAIN recorders) < MaxDownloads
    /\ downloads' = download
    /\ UNCHANGED <<app, calls, stale, view, currentImage, topText, bottomText, stickers,
                   processingSticker, isProcessing, isRecording, selecting,
                   editing, recorders, draggingId, dragOffset, seen, needsRender,
                   cache, imgs, decoded, bgPending, canvas, ctx, frame>>

\* a click on Download Video, handleDownloadVideo: with the canvas mounted,
\* setIsRecording(true) and record(), which returns as soon as the recorder
\* is started; the click is rendered, and the await then continues with
\* setIsRecording(false) before any other event is handled
DownloadVideo ==
    /\ Screen(seen) = "EDITOR"
    /\ ~seen.isRecording
    /\ Cardinality(DOMAIN recorders) < MaxRecorders
    /\ Len(downloads) + Cardinality(DOMAIN recorders) < MaxDownloads
    /\ IF ~Mounted(seen) THEN UNCHANGED vars
       ELSE \E c \in {Commit([State EXCEPT !.isRecording = TRUE])} :
                /\ recorders' = record
                /\ SetState([c.state EXCEPT !.isRecording = FALSE])
                /\ seen' = c.state
                /\ needsRender' = TRUE
                /\ cache' = c.cache
                /\ imgs' = c.imgs
                /\ bgPending' = c.bgPending
                /\ canvas' = c.canvas
                /\ ctx' = c.ctx
                /\ frame' = c.frame
                /\ UNCHANGED <<decoded, selecting, editing, downloads, calls, stale>>

\* a click on Download Video when record() throws (the handle has no record
\* operation, or MediaRecorder rejects video/webm): setIsRecording(true) is
\* rendered, and the handler ends at the exception
DownloadVideoThrows ==
    /\ Screen(seen) = "EDITOR"
    /\ ~seen.isRecording
    /\ Mounted(seen)
    /\ Flush([State EXCEPT !.isRecording = TRUE])
    /\ UNCHANGED <<io, calls, stale>>

\* the clock advances by one step: every capture is TickMs older, until its
\* timer is due
Tick ==
    /\ \E r \in DOMAIN recorders : recorders[r].elapsed < ClipMs
    /\ recorders' = [r \in DOMAIN recorders |->
            [recorders[r] EXCEPT !.elapsed =
                IF @ + TickMs > ClipMs THEN ClipMs ELSE @ + TickMs]]
    /\ UNCHANGED <<app, calls, stale, view, currentImage, topText, bottomText, stickers,
                   processingSticker, isProcessing, isRecording, selecting,
                   editing, downloads, draggingId, dragOffset, seen, needsRender,
                   cache, imgs, decoded, bgPending, canvas, ctx, frame>>

\* a capture that can be stopped, and saved, at any time
TimerFires_AnyTime(r) ==
    /\ r \in DOMAIN recorders
    /\ recorders' = [k \in DOMAIN recorders \ {r} |-> recorders[k]]
    /\ downloads' = Append(downloads, File("webm", recorders[r]))
    /\ UNCHANGED <<app, calls, stale, view, currentImage, topText, bottomText, stickers,
                   processingSticker, isProcessing, isRecording, selecting,
                   editing, draggingId, dragOffset, seen, needsRender,
                   cache, imgs, decoded, bgPending, canvas, ctx, frame>>

\* the timer of recorder r fires: mediaRecorder.stop(), and onstop saves the
\* clip as meme-video-<Date.now()>.webm
TimerFires(r) ==
    /\ r \in DOMAIN recorders
    /\ recorders[r].elapsed >= ClipMs
    /\ recorders' = [k \in DOMAIN recorders \ {r} |-> recorders[k]]
    /\ downloads' = Append(downloads, File("webm", recorders[r]))
    /\ UNCHANGED <<app, calls, stale, view, currentImage, topText, bottomText, stickers,
                   processingSticker, isProcessing, isRecording, selecting,
                   editing, draggingId, dragOffset, seen, needsRender,
                   cache, imgs, decoded, bgPending, canvas, ctx, frame>>

----------------------------------------------------------------------------
(* MemeCanvas: pointer events *)

\* canvas.getBoundingClientRect(): the canvas shown at its native size
Rects(cv) ==
    {[left |-> 0, top |-> 0, width |-> cv.width, height |-> cv.height]}

\* getBoundingClientRect() of a canvas laid out with max-w-full h-auto: at
\* its native size, or at half of it where the column is narrower, away from
\* the corner of the window
DisplayRects(cv) ==
    Rects(cv) \cup {[left |-> 10, top |-> 55,
                     width |-> cv.width \div 2, height |-> cv.height \div 2]}

\* the pointer is over the canvas
Inside(c, rect) ==
    /\ rect.width > 0 /\ rect.height > 0
    /\ c.x >= rect.left /\ c.x <= rect.left + rect.width
    /\ c.y >= rect.top /\ c.y <= rect.top + rect.height

\* a pointer position taken relative to the canvas and not scaled
getMousePos_Unscaled(c, rect, cv) ==
    [x |-> c.x - rect.left, y |-> c.y - rect.top]

\* scaleX = canvas.width / rect.width; x = (clientX - rect.left) * scaleX.
\* The quotients are exact for the rectangles of the model.
getMousePos(c, rect, cv) ==
    [x |-> ((c.x - rect.left) * cv.width) \div rect.width,
     y |-> ((c.y - rect.top) * cv.height) \div rect.height]

\* pos.x >= s.x - s.width / 2 && pos.x <= s.x + s.width / 2 && the same in y,
\* each comparison doubled
Contains(s, pos) ==
    /\ 2 * pos.x >= 2 * s.x - s.width
    /\ 2 * pos.x <= 2 * s.x + s.width
    /\ 2 * pos.y >= 2 * s.y - s.height
    /\ 2 * pos.y <= 2 * s.y + s.height

RECURSIVE HitFrom(_, _, _)
\* for (let i = stickers.length - 1; i >= 0; i--): the index of the first
\* sticker that contains pos, 0 when the loop ends without one
HitFrom(list, pos, i) ==
    IF i = 0 THEN 0
    ELSE IF Contains(list[i], pos) THEN i
    ELSE HitFrom(list, pos, i - 1)

\* a hit test that scans the list front to back, so that the bottom sticker wins
HitTest_BottomFirst(list, pos) ==
    IF \E i \in DOMAIN list : Contains(list[i], pos)
    THEN CHOOSE i \in DOMAIN list :
            Contains(list[i], pos) /\ \A j \in 1..(i - 1) : ~Contains(list[j], pos)
    ELSE 0

HitTest(list, pos) == HitFrom(list, pos, Len(list))

\* stickers.map(s => s.id === draggingId ? {...s, x: .., y: ..} : s)
MoveStickers(list, id, nx, ny) ==
    [i \in DOMAIN list |->
        IF list[i].id = id THEN [list[i] EXCEPT !.x = nx, !.y = ny] ELSE list[i]]

handleMouseDown(c, rect) ==
    LET pos == getMousePos(c, rect, canvas)
        i == HitTest(seen.stickers, pos)
    IN  IF i = 0 THEN UNCHANGED vars
        ELSE /\ Flush([State EXCEPT
                    !.draggingId = seen.stickers[i].id,
                    !.dragOffset = [x |-> pos.x - seen.stickers[i].x,
                                    y |-> pos.y - seen.stickers[i].y]])
             /\ UNCHANGED <<io, calls, stale>>

\* a move handler that forgets the recorded offset
handleMouseMove_NoOffset(c, rect) ==
    LET pos == getMousePos(c, rect, canvas)
    IN  IF seen.draggingId = NoId THEN UNCHANGED vars
        ELSE /\ Defer([State EXCEPT !.stickers =
                    MoveStickers(seen.stickers, seen.draggingId, pos.x, pos.y)])
             /\ UNCHANGED <<io, calls, stale>>

handleMouseMove(c, rect) ==
    LET pos == getMousePos(c, rect, canvas)
    IN  IF seen.draggingId = NoId THEN UNCHANGED vars
        ELSE /\ Defer([State EXCEPT !.stickers =
                    MoveStickers(seen.stickers, seen.draggingId,
                                 pos.x - seen.dragOffset.x, pos.y - seen.dragOffset.y)])
             /\ UNCHANGED <<io, calls, stale>>

\* setDraggingId(null); nothing is rendered when the target is null already
handleMouseUp ==
    IF draggingId = NoId /\ seen.draggingId = NoId THEN UNCHANGED vars
    ELSE /\ Flush([State EXCEPT !.draggingId = NoId])
         /\ UNCHANGED <<io, calls, stale>>

handleMouseLeave ==
    IF draggingId = NoId /\ seen.draggingId = NoId THEN UNCHANGED vars
    ELSE /\ Defer([State EXCEPT !.draggingId = NoId])
         /\ UNCHANGED <<io, calls, stale>>

MouseDown(c, rect) == Mounted(seen) /\ Inside(c, rect) /\ handleMouseDown(c, rect)
MouseMove(c, rect) == Mounted(seen) /\ Inside(c, rect) /\ handleMouseMove(c, rect)
MouseUp == Mounted(seen) /\ handleMouseUp
MouseLeave == Mounted(seen) /\ handleMouseLeave

----------------------------------------------------------------------------
(* Scheduled work and load completions *)

\* the scheduled render
Render ==
    /\ needsRender
    /\ Flush(State)
    /\ UNCHANGED <<io, calls, stale>>

\* a sticker image with no onload handler: the load completes, nothing is drawn
StickerOnload_NoDraw(h) ==
    /\ h \in DOMAIN imgs
    /\ ~imgs[h].complete
    /\ imgs' = Collect([imgs EXCEPT ![h] = [complete |-> TRUE, onload |-> NoClosure]], cache)
    /\ UNCHANGED <<app, calls, stale, view, currentImage, topText, bottomText, stickers,
                   processingSticker, isProcessing, isRecording, io,
                   draggingId, dragOffset, seen,
                   needsRender, cache, decoded, canvas, ctx, frame, bgPending>>

\* a sticker image whose onload draws and also sets a state to force a render
StickerOnload_ForceUpdate(h) ==
    /\ h \in DOMAIN imgs
    /\ ~imgs[h].complete
    /\ \E dr \in {DrawCanvas(imgs[h].onload, cache,
                    [imgs EXCEPT ![h] = [complete |-> TRUE, onload |-> NoClosure]],
                    decoded, bgPending, [canvas |-> canvas, ctx |-> ctx])} :
           /\ imgs' = Collect([imgs EXCEPT ![h] =
                                  [complete |-> TRUE, onload |-> NoClosure]], cache)
           /\ canvas' = dr.canvas
           /\ ctx' = dr.ctx
           /\ frame' = dr.frame
           /\ bgPending' = dr.bgPending
    /\ needsRender' = TRUE
    /\ UNCHANGED <<app, calls, stale, view, currentImage, topText, bottomText, stickers,
                   processingSticker, isProcessing, isRecording, io,
                   draggingId, dragOffset, seen, cache, decoded>>

\* img.onload of a sticker image: drawCanvas() of the render that made it
StickerOnload(h) ==
    /\ h \in DOMAIN imgs
    /\ ~imgs[h].complete
    /\ \E dr \in {DrawCanvas(imgs[h].onload, cache,
                    [imgs EXCEPT ![h] = [complete |-> TRUE, onload |-> NoClosure]],
                    decoded, bgPending, [canvas |-> canvas, ctx |-> ctx])} :
           /\ imgs' = Collect([imgs EXCEPT ![h] =
                                  [complete |-> TRUE, onload |-> NoClosure]], cache)
           /\ canvas' = dr.canvas
           /\ ctx' = dr.ctx
           /\ frame' = dr.frame
           /\ bgPending' = dr.bgPending
    /\ UNCHANGED <<app, calls, stale, view, currentImage, topText, bottomText, stickers,
                   processingSticker, isProcessing, isRecording, io,
                   draggingId, dragOffset, seen, needsRender, cache, decoded>>

\* img.onload = drawCanvas of a background image: the source src is decoded,
\* and the drawCanvas that waited for it runs again
BgOnload(src) ==
    /\ src \in DOMAIN bgPending
    /\ decoded' = decoded \cup {src}
    /\ \E dr \in {DrawCanvas(bgPending[src], cache, imgs, decoded \cup {src},
                            [k \in DOMAIN bgPending \ {src} |-> bgPending[k]],
                            [canvas |-> canvas, ctx |-> ctx])} :
           /\ canvas' = dr.canvas
           /\ ctx' = dr.ctx
           /\ frame' = dr.frame
           /\ bgPending' = dr.bgPending
    /\ UNCHANGED <<app, calls, stale, view, currentImage, topText, bottomText, stickers,
                   processingSticker, isProcessing, isRecording, io,
                   draggingId, dragOffset, seen, needsRender, cache, imgs>>

----------------------------------------------------------------------------

\* choosing the base image, and leaving the editor
NextImage ==
    \/ \E img \in Images : ChooseImage(img)
    \/ \E img \in Images : SelectDone(img)
    \/ GoGallery

\* the caption fields
NextCaption ==
    \/ \E t \in Texts : SetTopText(t)
    \/ \E t \in Texts : SetBottomText(t)

\* sticker generation and removal
NextSticker ==
    \/ GenerateStickerStart
    \/ \E t \in Times : GenerateStickerDone(t)
    \/ \E id \in Times : RemoveSticker(id)
    \/ ClearAllStickers

\* pointer events on the canvas
NextPointer ==
    \/ \E c \in ClientPoints : \E rect \in Rects(canvas) : MouseDown(c, rect)
    \/ \E c \in ClientPoints : \E rect \in Rects(canvas) : MouseMove(c, rect)
    \/ MouseUp
    \/ MouseLeave

\* the scheduled render and the load events
NextAsync ==
    \/ Render
    \/ \E h \in DOMAIN imgs : StickerOnload(h)
    \/ \E src \in DOMAIN bgPending : BgOnload(src)

\* the key check and the sign-in
NextAuth ==
    \/ \E outcome \in Outcomes : CheckAuthDone(outcome)
    \/ LoginStart
    \/ \E outcome \in Outcomes : LoginDone(outcome)

\* a template that does not load, a sticker that is not generated
NextFailure ==
    \/ \E img \in Images : SelectFailed(img)
    \/ GenerateStickerFailed

\* caption suggestions and analysis
NextAsk ==
    \/ CaptionStart
    \/ \E list \in Suggestions : CaptionDone(list)
    \/ CaptionFailed
    \/ AnalyzeStart
    \/ \E result \in Analyses : AnalyzeDone(result)
    \/ AnalyzeFailed

\* The editor with its stickers and the pointer; the captions stay empty.
Next == NextImage \/ NextSticker \/ NextPointer \/ NextAsync

Spec == InitGallery /\ [][Next]_vars

\* The editor with its stickers and the captions; the pointer stays away.
NextCaptions == NextImage \/ NextCaption \/ NextSticker \/ NextAsync

SpecCaptions == InitGallery /\ [][NextCaptions]_vars

\* The editor as the render that mounts it leaves it: base image img, captions
\* top and bottom, no sticker, the sources dec decoded before.
Editor(img, top, bottom) ==
    [view |-> "EDITOR", currentImage |-> img, topText |-> top,
     bottomText |-> bottom, stickers |-> <<>>, processingSticker |-> FALSE,
     isProcessing |-> FALSE, isRecording |-> FALSE,
     isAuthenticated |-> TRUE, isCheckingAuth |-> FALSE,
     error |-> NoError, captions |-> NoCaptions, analysisResult |-> NoResult,
     draggingId |-> NoId, dragOffset |-> ZeroOffset]

Shown(st, dec) ==
    \E dr \in {DrawCanvas(Closure(st), EmptyFn, EmptyFn, dec, EmptyFn, NewSurface)} :
        /\ view = st.view
        /\ currentImage = st.currentImage
        /\ topText = st.topText
        /\ bottomText = st.bottomText
        /\ stickers = st.stickers
        /\ processingSticker = st.processingSticker
        /\ isProcessing = st.isProcessing
        /\ isRecording = st.isRecording
        /\ isAuthenticated = st.isAuthenticated
        /\ isCheckingAuth = st.isCheckingAuth
        /\ error = st.error
        /\ captions = st.captions
        /\ analysisResult = st.analysisResult
        /\ checking = FALSE
        /\ logins = 0
        /\ asking = [k \in {"caption", "analysis"} |-> 0]
        /\ stale = NoCalls
        /\ selecting = [i \in Images |-> 0]
        /\ editing = [i \in EditedImages |-> 0]
        /\ recorders = EmptyFn
        /\ downloads = <<>>
        /\ draggingId = st.draggingId
        /\ dragOffset = st.dragOffset
        /\ seen = st
        /\ needsRender = FALSE
        /\ cache = EmptyFn
        /\ imgs = EmptyFn
        /\ decoded = dec
        /\ bgPending = dr.bgPending
        /\ canvas = dr.canvas
        /\ ctx = dr.ctx
        /\ frame = dr.frame

InitEditor == \E img \in Images : Shown(Editor(img, <<>>, <<>>), {})

\* The editor with the AI edit of its base image and the two exports, from
\* the render that shows a base image not decoded yet; no sticker is made.
\* The clock keeps running and a timer that is due fires.
NextEdit ==
    \/ \E img \in EditedImages : AIEditStart(img)
    \/ \E img \in EditedImages : AIEditDone(img)
    \/ \E img \in EditedImages : AIEditFailed(img)

NextExport ==
    \/ DownloadImage
    \/ DownloadVideo
    \/ DownloadVideoThrows
    \/ Tick
    \/ \E r \in DOMAIN recorders : TimerFires(r)

NextEditor ==
    \/ GoGallery
    \/ \E t \in Texts : SetTopText(t)
    \/ NextEdit
    \/ NextExport
    \/ Render
    \/ \E src \in DOMAIN bgPending : BgOnload(src)

SpecExport ==
    /\ InitEditor
    /\ [][NextEditor]_vars
    /\ WF_vars(Tick)
    /\ WF_vars(\E r \in DOMAIN recorders : TimerFires(r))

\* The editor and the generation of stickers, from the render that shows a
\* base image not decoded yet: a generation succeeds or fails, stickers are
\* removed, their images load.
NextStickers == NextSticker \/ GenerateStickerFailed \/ NextAsync

SpecStickers == InitEditor /\ [][NextStickers]_vars

\* a call for captions, an edit or an analysis returns
NextReturn ==
    \/ \E list \in Suggestions : CaptionDone(list)
    \/ CaptionFailed
    \/ \E img \in EditedImages : AIEditDone(img)
    \/ \E img \in EditedImages : AIEditFailed(img)
    \/ \E result \in Analyses : AnalyzeDone(result)
    \/ AnalyzeFailed

\* The application from its first render: the key check, the sign-in, the
\* choice of an image.  The key selector answers the check, and a scheduled
\* render runs.
NextStart ==
    \/ NextAuth
    \/ NextImage
    \/ Render
    \/ \E src \in DOMAIN bgPending : BgOnload(src)

SpecStart ==
    /\ Init
    /\ [][NextStart]_vars
    /\ WF_vars(\E outcome \in Outcomes : CheckAuthDone(outcome))
    /\ WF_vars(Render)

\* The pointer on a canvas that is displayed at its native size or smaller:
\* a sticker is generated, dragged and released over the canvas while its
\* image is loading.
NextDisplay ==
    \/ GenerateStickerStart
    \/ \E t \in Times : GenerateStickerDone(t)
    \/ Render
    \/ \E src \in DOMAIN bgPending : BgOnload(src)
    \/ \E c \in ClientPoints : \E rect \in DisplayRects(canvas) : MouseDown(c, rect)
    \/ \E c \in ClientPoints : \E rect \in DisplayRects(canvas) : MouseMove(c, rect)
    \/ MouseUp

SpecDisplay == InitEditor /\ [][NextDisplay]_vars

\* The editor and the calls that answer with captions, an edited image or an
\* analysis; a call that is sent returns, and a scheduled render runs.
NextAsks ==
    \/ NextEdit
    \/ NextAsk
    \/ Render
    \/ \E src \in DOMAIN bgPending : BgOnload(src)

SpecAsks ==
    /\ InitEditor
    /\ [][NextAsks]_vars
    /\ WF_vars(NextReturn)
    /\ WF_vars(Render)

\* The choice of another image while calls to the AI service are in flight:
\* every call succeeds.
NextReset ==
    \/ NextImage
    \/ GenerateStickerStart
    \/ \E t \in Times : GenerateStickerDone(t)
    \/ \E img \in EditedImages : AIEditStart(img)
    \/ \E img \in EditedImages : AIEditDone(img)
    \/ CaptionStart
    \/ \E list \in Suggestions : CaptionDone(list)
    \/ AnalyzeStart
    \/ \E result \in Analyses : AnalyzeDone(result)
    \/ Render
    \/ \E src \in DOMAIN bgPending : BgOnload(src)

SpecReset == InitGallery /\ [][NextReset]_vars

\* The captions on their own: the editor shows a base image decoded before,
\* and the user types captions.
InitText ==
    \E img \in Images \cup EditedImages : Shown(Editor(img, <<>>, <<>>), {img})

NextText ==
    \/ \E t \in Captions : SetTopText(t)
    \/ \E t \in Captions : SetBottomText(t)

SpecText == InitText /\ [][NextText]_vars

\* The sizing of the surface on its own: the editor has just shown a base
\* image of some natural size, not decoded yet, and the image's load event draws.

InitSize == \E img \in ImageSizes : Shown(Editor(img, <<>>, <<>>), {})

NextSize == \E src \in DOMAIN bgPending : BgOnload(src)

SpecSize == InitSize /\ [][NextSize]_vars

----------------------------------------------------------------------------
(* Properties *)

\* p lies in the axis-aligned box of sticker s, bounds included
InBox(s, p) ==
    /\ 2 * s.x - s.width <= 2 * p.x /\ 2 * p.x <= 2 * s.x + s.width
    /\ 2 * s.y - s.height <= 2 * p.y /\ 2 * p.y <= 2 * s.y + s.height

Drawn(fr) == {fr[i].id : i \in {j \in DOMAIN fr : fr[j].kind = "sticker"}}

\* C1: a pointer-down at surface point p makes the containing sticker of the
\* greatest list index the drag target, with offset p minus its center; when
\* no sticker contains p, no drag starts.
C1_PointerDownTopmost ==
    [][\A c \in ClientPoints : \A rect \in Rects(canvas) :
        MouseDown(c, rect) =>
            LET p == getMousePos(c, rect, canvas)
                hit == {i \in DOMAIN seen.stickers : InBox(seen.stickers[i], p)}
            IN  IF hit = {}
                THEN draggingId' = draggingId /\ dragOffset' = dragOffset
                ELSE LET top == CHOOSE i \in hit : \A j \in hit : j <= i
                     IN  /\ draggingId' = seen.stickers[top].id
                         /\ dragOffset' = [x |-> p.x - seen.stickers[top].x,
                                           y |-> p.y - seen.stickers[top].y]]_vars

\* C1 witness: two stickers of different ids overlap, and the drag target is
\* the upper one, grabbed off its center
C1_Witness ==
    /\ Len(seen.stickers) = 2
    /\ seen.stickers[1].id # seen.stickers[2].id
    /\ seen.stickers[1].x = seen.stickers[2].x
    /\ seen.stickers[1].y = seen.stickers[2].y
    /\ draggingId = seen.stickers[2].id
    /\ dragOffset # ZeroOffset
    /\ InBox(seen.stickers[1], [x |-> seen.stickers[2].x + dragOffset.x,
                                y |-> seen.stickers[2].y + dragOffset.y])

\* C2: during a drag of sticker S with recorded offset o, the list a
\* pointer-move at p emits has S's center at exactly p - o, whatever moves came
\* before; a sticker at (150,150), grabbed with zero offset and moved to
\* (300,200), is at (300,200).
C2_DragTracksPointer ==
    [][\A c \in ClientPoints : \A rect \in Rects(canvas) :
        (draggingId # NoId /\ MouseMove(c, rect)) =>
            LET p == getMousePos(c, rect, canvas) IN
            /\ Len(stickers') = Len(seen.stickers)
            /\ \A i \in DOMAIN stickers' :
                  /\ stickers'[i].id = seen.stickers[i].id
                  /\ stickers'[i].id = draggingId =>
                        /\ stickers'[i].x = p.x - dragOffset.x
                        /\ stickers'[i].y = p.y - dragOffset.y
            /\ LET moved == MoveStickers(<<NewSticker(1)>>, 1, 300 - 0, 200 - 0)
               IN  moved[1].x = 300 /\ moved[1].y = 200]_vars

\* C2 witness: the drag target was grabbed off its center and has been moved
\* away from where it was made
C2_Witness ==
    /\ draggingId # NoId
    /\ dragOffset # ZeroOffset
    /\ \E i \in DOMAIN stickers :
          /\ stickers[i].id = draggingId
          /\ stickers[i].x # DefaultX
          /\ \E c \in ClientPoints :
                /\ stickers[i].x = c.x - dragOffset.x
                /\ stickers[i].y = c.y - dragOffset.y

\* C3: a pointer-up or a pointer-leave leaves no drag target, and with no drag
\* target (none since that event) a pointer-move emits no sticker update.
C3_ReleaseEndsDrag ==
    [][/\ (MouseUp \/ MouseLeave) => draggingId' = NoId
       /\ \A c \in ClientPoints : \A rect \in Rects(canvas) :
             (draggingId = NoId /\ MouseMove(c, rect)) =>
                 (stickers' = stickers /\ needsRender' = needsRender)]_vars

\* C4: the drag target goes from none to a sticker only by a pointer-down,
\* from a sticker to none only by pointer-up or pointer-leave, and never from
\* one sticker to another (the canvas being on screen before and after).
C4_DragStateMachine ==
    [][(Mounted(seen) /\ Mounted(seen')) =>
        /\ (draggingId = NoId /\ draggingId' # NoId) =>
              \E c \in ClientPoints : \E rect \in Rects(canvas) : MouseDown(c, rect)
        /\ (draggingId # NoId /\ draggingId' = NoId) => (MouseUp \/ MouseLeave)
        /\ (draggingId # NoId /\ draggingId' # NoId) => draggingId' = draggingId]_vars

\* C5: once the compositor has processed an update of the sticker list, its
\* image cache has exactly one image per sticker of the composition: the keys
\* are the ids of the list it rendered, which is the current list when no
\* render is pending.
C5_CacheKeysAreIds ==
    Mounted(seen) =>
        /\ DOMAIN cache = Ids(seen.stickers)
        /\ \A id \in DOMAIN cache : cache[id] \in DOMAIN imgs
        /\ ~needsRender => DOMAIN cache = Ids(stickers)

\* C5 witness: a sticker has been removed while another stays; the removed
\* one's image, still loading, is out of the cache
C5_Witness ==
    /\ Mounted(seen)
    /\ ~needsRender
    /\ Len(stickers) = 1
    /\ DOMAIN cache = Ids(stickers)
    /\ \E h \in DOMAIN imgs : h \notin Range(cache)

\* C6: removing a sticker evicts its image and takes it out of the list the
\* compositor draws; no draw, the one of a late load event included, draws a
\* sticker the cache does not hold; and an id that is gone comes back only as
\* a newly generated sticker.
C6_RemovedNeverDrawn ==
    /\ [][\A id \in Times : RemoveSticker(id) =>
             /\ id \notin DOMAIN cache'
             /\ id \notin Ids(stickers') \cup Ids(seen'.stickers)
             /\ id \notin Drawn(frame')]_vars
    /\ [][\A h \in DOMAIN imgs : StickerOnload(h) =>
             Drawn(frame') \subseteq DOMAIN cache]_vars
    /\ [](Drawn(frame) \subseteq DOMAIN cache)
    /\ [][\A id \in Times :
             (id \notin Ids(stickers) \cup Ids(seen.stickers) /\ id \in Ids(stickers'))
                 => GenerateStickerDone(id)]_vars

\* C6 witness: a sticker was removed with its load in flight: its image is out
\* of the cache, and the draw its load event will run is the one of a render
\* that still listed the sticker
C6_Witness ==
    /\ Mounted(seen)
    /\ ~needsRender
    /\ \E h \in DOMAIN imgs \ Range(cache) :
          /\ ~imgs[h].complete
          /\ \E id \in Ids(imgs[h].onload.stickers) :
                id \notin DOMAIN cache /\ id \notin Ids(stickers) /\ id \notin Drawn(frame)

\* C7: a generated sticker stays in the list until it is explicitly removed,
\* cleared or reset by a newly chosen image, whatever the interleaving of
\* generation completions, removals and drag moves.
C7_NoStickerLost ==
    [][\A id \in Ids(stickers) \ Ids(stickers') :
          \/ \E r \in Times : RemoveSticker(r)
          \/ ClearAllStickers
          \/ \E img \in Images : SelectDone(img)]_vars

\* C10: a sticker whose image has not loaded is left out of the frame; when
\* its load completes while the cache holds it, the load event itself draws a
\* frame with the sticker in it, on the surface or, the background not being
\* decoded yet, again when the background's load event comes.
C10_DrawnOnceLoaded ==
    /\ [](\A id \in DOMAIN cache : ~imgs[cache[id]].complete => id \notin Drawn(frame))
    /\ [][\A h \in DOMAIN imgs : \A id \in DOMAIN cache :
             (StickerOnload(h) /\ cache[id] = h) =>
                 /\ id \in Drawn(frame')
                 /\ \/ canvas'.width > 0
                    \/ \E src \in DOMAIN bgPending' : id \in Ids(bgPending'[src].stickers)]_vars

\* C10 witness: a loaded sticker is in the frame next to one that is still
\* loading and is left out, and no render is pending
C10_Witness ==
    /\ Mounted(seen)
    /\ ~needsRender
    /\ canvas.width > 0
    /\ \E id \in DOMAIN cache : imgs[cache[id]].complete /\ id \in Drawn(frame)
    /\ \E id \in DOMAIN cache : ~imgs[cache[id]].complete /\ id \notin Drawn(frame)

KindRank(kind) ==
    CASE kind = "background" -> 0
      [] kind \in {"sticker", "outline"} -> 1
      [] kind = "topText" -> 2
      [] kind = "bottomText" -> 3

\* the ids of the stickers drawn in a frame, in the order they were drawn
DrawnSeq(fr) ==
    LET IsSticker(op) == op.kind = "sticker"
        ops == SelectSeq(fr, IsSticker)
    IN  [i \in DOMAIN ops |-> ops[i].id]

\* the ids of the list's stickers whose cached image is complete, in list order
LoadedSeq(list, ca, im) ==
    LET IsLoaded(s) == s.id \in DOMAIN ca /\ im[ca[s.id]].complete
        ss == SelectSeq(list, IsLoaded)
    IN  [i \in DOMAIN ss |-> ss[i].id]

\* C9: every frame starts with the one background, then has the stickers, then
\* the top and the bottom caption; and the stickers a render draws are in the
\* order of the sticker list.
C9_DrawOrder ==
    /\ [](frame # <<>> =>
            /\ frame[1].kind = "background"
            /\ \A i \in DOMAIN frame : i > 1 => frame[i].kind # "background"
            /\ \A i, j \in DOMAIN frame :
                  i < j => KindRank(frame[i].kind) <= KindRank(frame[j].kind))
    /\ [][(Render \/ \E t \in Texts : SetTopText(t) \/ SetBottomText(t)) =>
             (Mounted(seen') =>
                 DrawnSeq(frame') = LoadedSeq(seen'.stickers, cache', imgs'))]_vars

\* C9 witness: a frame of the background, two stickers of different ids and
\* both captions
C9_Witness ==
    /\ Len(frame) = 5
    /\ frame[2].kind = "sticker" /\ frame[3].kind = "sticker"
    /\ frame[2].id # frame[3].id
    /\ frame[4].kind = "topText" /\ frame[5].kind = "bottomText"
    /\ canvas.width > 0

\* C11: when a render commits new props or state while the background image
\* is not decoded yet, a surface that shows a composition is left as it was:
\* its size is unchanged and no draw operation is issued on it.
C11_SkippedWhileLoading ==
    [][(/\ seen' # seen
        /\ Mounted(seen) /\ Mounted(seen')
        /\ canvas.width > 0
        /\ seen'.currentImage \notin decoded')
       => (canvas' = canvas /\ frame' = frame)]_vars

\* the load events still to come, a sticker image weighing two: the draw its
\* load runs may make one background image wait
LoadMeasure ==
    2 * Cardinality({h \in DOMAIN imgs : ~imgs[h].complete})
    + Cardinality(DOMAIN bgPending)

\* C12: a load completion runs drawCanvas once and sets no state, so it
\* schedules no render; the image that completed waits for no further load
\* event, and the number of load events still to come goes down with each
\* completion: the renders that follow a load are finite.
C12_LoadsQuiesce ==
    /\ [][\A h \in DOMAIN imgs : StickerOnload(h) =>
            /\ ~(h \in DOMAIN imgs' /\ ~imgs'[h].complete)
            /\ LoadMeasure' < LoadMeasure
            /\ UNCHANGED <<seen, needsRender, cache>>]_vars
    /\ [][\A src \in DOMAIN bgPending : BgOnload(src) =>
            /\ src \notin DOMAIN bgPending'
            /\ LoadMeasure' < LoadMeasure
            /\ UNCHANGED <<seen, needsRender, cache, imgs>>]_vars

\* both kinds of load have completed and no load event is still to come
C12_Witness ==
    /\ Mounted(seen)
    /\ LoadMeasure = 0
    /\ seen.currentImage \in decoded
    /\ \E h \in DOMAIN imgs : imgs[h].complete
    /\ \E i \in DOMAIN frame : frame[i].kind = "sticker"

\* drawCanvas of closure cl, called now
DrawNow(cl) ==
    DrawCanvas(cl, cache, imgs, decoded, bgPending, [canvas |-> canvas, ctx |-> ctx])

\* drawCanvas of closure cl, called on the surface the call with result
\* first has left
DrawAgain(cl, first) ==
    DrawCanvas(cl, cache, imgs, decoded, first.bgPending,
               [canvas |-> first.canvas, ctx |-> first.ctx])

\* drawCanvas of closure cl, called on a surface nothing was drawn on
DrawFresh(cl) == DrawCanvas(cl, cache, imgs, decoded, bgPending, NewSurface)

\* the closures a drawCanvas call can have: the last render's, the next
\* render's, and those the pending load events hold
Closures ==
    {Closure(seen), Closure(State)}
    \cup {imgs[h].onload : h \in {k \in DOMAIN imgs : ~imgs[k].complete}}
    \cup Range(bgPending)

Idempotent(first, second, fresh) ==
    /\ second.canvas = first.canvas
    /\ second.frame = first.frame
    /\ fresh.canvas = first.canvas
    /\ fresh.frame = first.frame

\* C13: with no drag, two drawCanvas calls in a row with the same background,
\* stickers, captions and load state give the same surface size and the same
\* draw operations, drawing state included; the same as a call on a surface
\* nothing was drawn on gives, so the second owes nothing to the first.
C13_RenderIdempotent ==
    Mounted(seen) =>
        \A cl \in Closures :
            cl.draggingId = NoId =>
                Idempotent(DrawNow(cl), DrawAgain(cl, DrawNow(cl)), DrawFresh(cl))

\* the surface shows a sticker and both captions, its size is not assigned
\* again, and the context holds what the last call left
C13_Witness ==
    /\ Mounted(seen)
    /\ canvas.width > 0
    /\ ctx.textBaseline = "bottom" /\ ctx.lineJoin = "round"
    /\ \E i \in DOMAIN frame : frame[i].kind = "sticker"
    /\ \E i \in DOMAIN frame : frame[i].kind = "topText"
    /\ \E i \in DOMAIN frame : frame[i].kind = "bottomText"
    /\ DrawNow(Closure(seen)).ctx = ctx
    /\ DrawNow(Closure(seen)).frame = frame

\* the lines drawn for the caption of the given kind, top to bottom
LinesOf(ops, kind) ==
    LET sel == SelectSeq(ops, LAMBDA op : op.kind = kind)
    IN  [i \in DOMAIN sel |-> sel[i].line]

RECURSIVE Flatten(_)
\* the words of the lines, in order
Flatten(lines) == IF lines = <<>> THEN <<>> ELSE Head(lines) \o Flatten(Tail(lines))

\* the caption the last render shows, by kind
CaptionOf(kind) == IF kind = "topText" THEN seen.topText ELSE seen.bottomText

\* a word alone measures no wider than 95% of the surface width
WordFits(word, cv) == 20 * word * Advance(FontSize(cv)) <= 19 * cv.width

\* the whole caption, its words joined by single spaces, measures wider than
\* 95% of the surface width
CaptionWide(text, cv) ==
    20 * (Chars(text) - 1) * Advance(FontSize(cv)) > 19 * cv.width

\* C14: a caption whose words each measure no wider than 95% of the surface
\* width is drawn in lines that keep its words in order, none of which
\* measures wider than 95% of the surface width, and in more than one line
\* when the whole caption measures wider than that.
C14_WrapFits ==
    \A kind \in {"topText", "bottomText"} :
        (/\ Mounted(seen)
         /\ canvas.width > 0
         /\ CaptionOf(kind) # <<>>
         /\ \A i \in DOMAIN CaptionOf(kind) : WordFits(CaptionOf(kind)[i], canvas))
        => /\ Flatten(LinesOf(frame, kind)) = CaptionOf(kind)
           /\ \A i \in DOMAIN LinesOf(frame, kind) :
                ~TooWide(LinesOf(frame, kind)[i], canvas)
           /\ CaptionWide(CaptionOf(kind), canvas) => Len(LinesOf(frame, kind)) > 1

\* the operations drawn for the caption of the given kind, top to bottom
CaptionOps(ops, kind) == SelectSeq(ops, LAMBDA op : op.kind = kind)

\* C15: of the n >= 1 lines of a caption on a surface of height H, with line
\* height L, line i (from 0) of the top caption is drawn at 0.05 * H + i * L
\* and line i of the bottom caption at 0.95 * H - (n - 1 - i) * L, so the last
\* line of the bottom caption is at 95% of the height.  The y of an operation
\* is in twentieths of a pixel.
C15_LinePositions ==
    Mounted(seen) =>
        /\ \A i \in DOMAIN CaptionOps(frame, "topText") :
              CaptionOps(frame, "topText")[i].y
                  = canvas.height + (i - 1) * LineHeight(canvas)
        /\ \A i \in DOMAIN CaptionOps(frame, "bottomText") :
              CaptionOps(frame, "bottomText")[i].y
                  = 19 * canvas.height
                    - (Len(CaptionOps(frame, "bottomText")) - i) * LineHeight(canvas)
        /\ CaptionOps(frame, "bottomText") # <<>> =>
              CaptionOps(frame, "bottomText")[Len(CaptionOps(frame, "bottomText"))].y
                  = 19 * canvas.height

\* both captions are drawn in three lines
C15_Witness ==
    /\ Mounted(seen)
    /\ canvas.height > 0
    /\ Len(CaptionOps(frame, "topText")) = 3
    /\ Len(CaptionOps(frame, "bottomText")) = 3
    /\ CaptionOps(frame, "bottomText")[1].y < CaptionOps(frame, "bottomText")[3].y

\* this step ran drawCanvas: a render was committed, or a load event fired
DrawStep ==
    \/ needsRender' = FALSE /\ (needsRender \/ seen' # seen)
    \/ \E h \in DOMAIN imgs : StickerOnload(h)
    \/ \E src \in DOMAIN bgPending : BgOnload(src)

\* the selection outlines of a frame
Outlines(f) == {i \in DOMAIN f : f[i].kind = "outline"}

\* the outline op is the box of sticker s, not turned
OutlineOf(op, s) ==
    /\ op.id = s.id
    /\ op.x = s.x /\ op.y = s.y /\ op.w = s.width /\ op.h = s.height
    /\ op.rotation = 0

\* C16: every drawCanvas run while a drag is active on a sticker S whose image
\* is loaded draws one selection outline, the axis-aligned box of S and of
\* no other sticker; every drawCanvas run while no drag is active draws no
\* outline.
C16_OutlineOnlyWhileDragging ==
    [][(DrawStep /\ Mounted(seen')) =>
        /\ draggingId' = NoId => Outlines(frame') = {}
        /\ \A k \in DOMAIN stickers' :
              (/\ stickers'[k].id = draggingId'
               /\ draggingId' \in DOMAIN cache'
               /\ imgs'[cache'[draggingId']].complete)
              => /\ Cardinality(Outlines(frame')) = 1
                 /\ \A i \in Outlines(frame') : OutlineOf(frame'[i], stickers'[k])]_vars

\* list b is list a with, at most, the x and y of the stickers of the given
\* id changed
SameButPosition(a, b, id) ==
    /\ Len(b) = Len(a)
    /\ \A i \in DOMAIN a :
          IF a[i].id = id
          THEN b[i] = [a[i] EXCEPT !.x = b[i].x, !.y = b[i].y]
          ELSE b[i] = a[i]

\* C17: a pointer-move during a drag of S emits the current list with only
\* S's x and y changed, and changes neither the drag target nor the recorded
\* offset; a pointer-move with no drag active emits nothing.
C17_MoveChangesOnlyPosition ==
    [][\A c \in ClientPoints : \A rect \in Rects(canvas) :
         MouseMove(c, rect) =>
            /\ draggingId' = draggingId
            /\ dragOffset' = dragOffset
            /\ IF draggingId = NoId THEN stickers' = stickers
               ELSE SameButPosition(stickers, stickers', draggingId)]_vars

\* C18: no two stickers of the list share an identifier, and a pointer event
\* changes no sticker's identifier.
C18_IdsUniqueAndStable ==
    /\ [](\A i, j \in DOMAIN stickers : stickers[i].id = stickers[j].id => i = j)
    /\ [][(\/ \E c \in ClientPoints : \E rect \in Rects(canvas) : MouseDown(c, rect)
           \/ \E c \in ClientPoints : \E rect \in Rects(canvas) : MouseMove(c, rect)
           \/ MouseUp
           \/ MouseLeave)
          => (/\ Len(stickers') <= Len(stickers)
              /\ \A i \in DOMAIN stickers' : stickers'[i].id = stickers[i].id)]_vars

\* the clips among the saved files
Clips(files) == SelectSeq(files, LAMBDA f : f.kind = "webm")

\* the captures that this step ends
Ended == DOMAIN recorders \ DOMAIN recorders'

\* C19: a capture is made at 30 frames per second and lasts 3000 ms.  No step
\* ends it before its 3000 ms have elapsed or resets its clock; the step that
\* ends it saves one clip of it, and a clip is saved by no other step.  Every
\* capture is ended, and so saved, in the end.
C19_ClipAfterFixedDuration ==
    /\ [](\A r \in DOMAIN recorders : recorders[r].fps = ClipFps)
    /\ [][/\ \A r \in DOMAIN recorders \cap DOMAIN recorders' :
                recorders'[r].elapsed >= recorders[r].elapsed
          /\ \A r \in Ended :
                /\ recorders[r].elapsed >= ClipMs
                /\ Ended = {r}
                /\ downloads' = Append(downloads, File("webm", recorders[r]))
          /\ Ended = {} => Clips(downloads') = Clips(downloads)]_vars
    /\ \A r \in 1..MaxRecorders :
          (r \in DOMAIN recorders) ~> (r \notin DOMAIN recorders)

\* one capture has been saved while another one is still running, and the
\* user has left the editor
C19_Witness ==
    /\ Clips(downloads) # <<>>
    /\ \E r \in DOMAIN recorders :
          recorders[r].elapsed > 0 /\ recorders[r].elapsed < ClipMs
    /\ view = "GALLERY"

\* there is nothing to export: no canvas element is mounted, or the surface
\* has no width or no height (its background is not decoded)
NoSurface == ~Mounted(seen) \/ canvas.width = 0 \/ canvas.height = 0

\* C20: an export (still or clip) attempted when there is no renderable
\* surface is a no-op: nothing is downloaded, no recorder is started, and the
\* composition and the drag state are unchanged
C20_ExportWithoutSurfaceIsNoOp ==
    [][((DownloadImage \/ DownloadVideo) /\ NoSurface)
         => /\ downloads' = downloads
            /\ recorders' = recorders
            /\ UNCHANGED <<currentImage, topText, bottomText, stickers,
                           draggingId, dragOffset>>]_vars

\* C21: a sticker generation that succeeds appends exactly one sticker with
\* the default geometry (x = 150, y = 150, width = 100, height = 100,
\* rotation = 0) at the end of the list and leaves every sticker of the list
\* as it is; one that fails leaves the list as it is and sets an error
\* message; both clear processingSticker
C21_StickerGeneration ==
    [][/\ (\E t \in Times : GenerateStickerDone(t))
            => /\ \E t \in Times :
                    stickers' = Append(stickers,
                        [id |-> t, x |-> 150, y |-> 150, width |-> 100,
                         height |-> 100, rotation |-> 0])
               /\ ~processingSticker'
       /\ GenerateStickerFailed
            => /\ stickers' = stickers
               /\ error' # NoError
               /\ ~processingSticker']_vars

\* a generation has added a second sticker to the list, and the generation
\* after it has failed
C21_Witness ==
    /\ Len(stickers) = 2
    /\ error = "sticker"
    /\ ~processingSticker

\* the surface point p is the screen point c mapped through rect:
\* p = ((cx - left) * W / dw, (cy - top) * H / dh)
MapsTo(p, c, rect, cv) ==
    /\ p.x * rect.width = (c.x - rect.left) * cv.width
    /\ p.y * rect.height = (c.y - rect.top) * cv.height

\* C22: a pointer event at screen position (cx, cy) over a surface of native
\* size (W, H) displayed in a rectangle with origin (left, top) and size
\* (dw, dh), dw > 0 and dh > 0, acts at the surface point ((cx-left)*W/dw,
\* (cy-top)*H/dh): a pointer-down grabs the topmost sticker whose box holds
\* that point and records the offset of that point from its center, and a
\* pointer-move puts the drag target at that point minus the offset
C22_PointerMapping ==
    [][\A c \in ClientPoints : \A rect \in DisplayRects(canvas) :
        /\ (MouseDown(c, rect) /\ draggingId' # draggingId) =>
              \E i \in DOMAIN seen.stickers :
                 LET s == seen.stickers[i]
                     p == [x |-> s.x + dragOffset'.x, y |-> s.y + dragOffset'.y]
                 IN  /\ draggingId' = s.id
                     /\ MapsTo(p, c, rect, canvas)
                     /\ InBox(s, p)
                     /\ \A j \in (i + 1)..Len(seen.stickers) :
                           ~InBox(seen.stickers[j], p)
        /\ (MouseMove(c, rect) /\ seen.draggingId # NoId) =>
              \A i \in DOMAIN stickers' :
                 stickers'[i].id = seen.draggingId =>
                    MapsTo([x |-> stickers'[i].x + seen.dragOffset.x,
                            y |-> stickers'[i].y + seen.dragOffset.y],
                           c, rect, canvas)]_vars

\* the canvas is displayed at half its native size, and a sticker grabbed
\* off its center at the screen point (100, 130) has followed the pointer to
\* the screen point (300, 200)
C22_Witness ==
    /\ canvas.width = 800
    /\ draggingId # NoId
    /\ dragOffset = [x |-> 30, y |-> 0]
    /\ \E i \in DOMAIN stickers :
          /\ stickers[i].id = draggingId
          /\ stickers[i].x = 550
          /\ stickers[i].y = 290

\* C23: the gallery and the editor are shown, an image is chosen and the
\* canvas is mounted only when isAuthenticated is true; the key check always
\* finishes, so that isCheckingAuth becomes false whether the check finds a
\* key, finds none or throws; and isAuthenticated, once true, stays true
C23_AuthGate ==
    /\ [](/\ Screen(seen) \in {"GALLERY", "EDITOR"} => isAuthenticated
          /\ (view = "EDITOR" \/ InFlight(selecting) > 0 \/ Mounted(seen))
                => isAuthenticated)
    /\ [][isAuthenticated => isAuthenticated']_vars
    /\ <>(~isCheckingAuth)

\* the check found no key, a sign-in threw, a later sign-in found a key, and
\* the gallery is shown
C23_Witness ==
    /\ Screen(seen) = "GALLERY"
    /\ error = "login"
    /\ isAuthenticated
    /\ ~isCheckingAuth

\* C24: the draw a sticker's load completion runs shows the composition as it
\* is at the completion: once every pending load has completed and no render
\* is scheduled, the surface holds what a drawCanvas of the current stickers,
\* captions, background and drag target draws
C24_LoadDrawsCurrent ==
    (Mounted(seen) /\ LoadMeasure = 0 /\ ~needsRender) =>
        /\ frame = DrawNow(Closure(State)).frame
        /\ canvas = DrawNow(Closure(State)).canvas

\* C25: while a clip capture is in flight, from the start of its recorder to
\* its stop, isRecording is true and the record button is disabled, and no
\* second capture is in flight
C25_OneCaptureAtATime ==
    /\ DOMAIN recorders # {} => (isRecording /\ seen.isRecording)
    /\ Cardinality(DOMAIN recorders) <= 1

\* C26: a result of the AI service that was requested before the last
\* resetEditor is not applied: when such a call returns, the current image,
\* the sticker list, the caption suggestions and the analysis result stay as
\* they are
C26_NoStaleResult ==
    [][/\ stale'["edit"] < stale["edit"] => currentImage' = currentImage
       /\ stale'["sticker"] < stale["sticker"] => stickers' = stickers
       /\ stale'["caption"] < stale["caption"] => captions' = captions
       /\ stale'["analysis"] < stale["analysis"]
             => analysisResult' = analysisResult]_vars

\* C27: whenever a drag is active, the drag target is the id of a sticker of
\* the current list: removing that sticker, clearing the stickers or
\* resetting the editor during a drag leaves no drag target behind
C27_DragTargetPresent ==
    draggingId # NoId => draggingId \in Ids(stickers)

\* C28: after every click on Download Video isRecording returns to false,
\* also when record() throws or the canvas handle has no record operation:
\* the record button does not stay disabled for ever
C28_RecordingEnds ==
    (isRecording \/ seen.isRecording) ~> (~isRecording /\ (needsRender \/ ~seen.isRecording))

\* a caption, edit or analysis request is sent / fails
AskStarts == CaptionStart \/ AnalyzeStart \/ \E img \in EditedImages : AIEditStart(img)
AskFails == CaptionFailed \/ AnalyzeFailed \/ \E img \in EditedImages : AIEditFailed(img)

====
